---------------------------- MODULE Spec2Model ----------------------------
(***************************************************************************)
(* A model of the Hitachi HD66753 LCD controller emulation of clicky       *)
(* (src/src/devices/hd66753.rs): the 8-bit byte latches of r32 / w32, the   *)
(* Index Register, the Address Counter, the internal registers and the     *)
(* graphics RAM, driven by guest bus accesses; and the renderer thread that *)
(* Hd66753Renderer::new spawns, with the lock on the graphics RAM, the      *)
(* atomic invert flag, the window and the kill channel it shares with the   *)
(* controller.  Beside it, the register table of the PP5020 EIDE          *)
(* controller (src/src/devices/platform/pp/eide.rs).                       *)
(*                                                                         *)
(* Numbers are written in decimal; the hexadecimal value of the source is  *)
(* given beside each.  The graphics RAM, a [u16; EMU_CGRAM_LEN] array that  *)
(* starts all zero, is held as the function from the addresses whose word  *)
(* is not zero to that word (CgramGet / CgramSet); every other address     *)
(* holds zero.                                                             *)
(***************************************************************************)
EXTENDS Naturals, Integers, FiniteSets, Sequences, TLC

VARIABLES
    write_byte_latch,   \* Hd66753.write_byte_latch : Option<u8>
    read_byte_latch,    \* Hd66753.read_byte_latch  : Option<u8>
    ir,                 \* Hd66753.ir : u16, the Index Register
    ac,                 \* Hd66753.ac : usize, the Address Counter
    cgram,              \* Hd66753.cgram : the graphics RAM
    ireg,               \* Hd66753.ireg : InternalRegs
    call,               \* the bus access made last: [op, offset, val]
    ret,                \* what that access returned: [kind, val, msg]
    budget,             \* bus accesses the guest has still to make
    dims,               \* [width, height] as given to Hd66753::new_hle
    renderer,           \* the renderer thread: [pc, cgram, copied, invert, buffer, exit_code]
    window,             \* the minifb window: [open, escape]
    cgram_lock,         \* the RwLock around cgram: "free" or "read"
    kill,               \* messages waiting in the kill channel
    teardown,           \* Drop of the controller: "none", "send" or "done"
    eide                \* the EIDECon of eide.rs, its last access and what it returned

\* what the renderer thread, the user and Drop change
rvars == <<dims, renderer, window, cgram_lock, kill, teardown>>

vars == <<write_byte_latch, read_byte_latch, ir, ac, cgram, ireg, call, ret, budget,
          dims, renderer, window, cgram_lock, kill, teardown, eide>>

-----------------------------------------------------------------------------
(* Program constants *)

CGRAM_HEIGHT == 132

EMU_CGRAM_WIDTH == 256

EMU_CGRAM_BYTES == ((EMU_CGRAM_WIDTH * CGRAM_HEIGHT) * 2) \div 8

EMU_CGRAM_LEN == EMU_CGRAM_BYTES \div 2

\* usize is 64 bits wide on the targets the emulator is built for
UsizeBits == 64

\* the modulus 0x1080 of the Address Counter
AC_MODULUS == 4224

\* the largest valid Index Register value, 0x12
IR_MAX == 18

\* darkest to lightest: 0x000000, 0x686868, 0xb8b8b9, 0xffffff
PALETTE == <<0, 6842472, 12105913, 16777215>>

\* the capacity of the kill channel, chan::bounded(1)
KillCapacity == 1

\* the width Hd66753Renderer::new adds to the one it is given
HACK_WIDTH == 8

\* Option<T>: None is the empty tuple and Some(x) the tuple of x
None == << >>

Some(x) == <<x>>

Unwrap(o) == o[1]

-----------------------------------------------------------------------------
(* Bounds of the model *)

\* bus accesses the guest makes after construction (Spec)
MaxCalls == 6

\* bus accesses the guest makes on a programmed controller (SpecAc)
MaxAcCalls == 2

\* bus accesses the guest makes on a programmed controller (SpecGop)
MaxGopCalls == 2

\* bus accesses the guest makes on a programmed controller (SpecReg)
MaxRegCalls == 4

\* bus accesses the guest makes while the renderer runs (SpecRender)
MaxRenderCalls == 2

\* bus accesses the guest makes to the EIDE controller (SpecEide)
MaxEideCalls == 2

\* bus accesses of the guest beside the renderer of any display
MaxFrameCalls == 2

\* the pieces in which the copy of the graphics RAM is taken, one at a time
CopyChunks == 2

-----------------------------------------------------------------------------
(* Integer helpers: the fixed-width operations the code uses *)

\* 2^n for n in 0 .. 16
Pow2Table ==
    <<1, 2, 4, 8, 16, 32, 64, 128, 256, 512, 1024, 2048, 4096, 8192, 16384,
      32768, 65536>>

Pow2(n) == Pow2Table[n + 1]

\* 2^n mod m, computed without forming 2^n
RECURSIVE Pow2Mod(_, _)
Pow2Mod(n, m) == IF n = 0 THEN 1 % m ELSE (2 * Pow2Mod(n - 1, m)) % m

\* `val as u8`
AsU8(v) == v % 256

\* bit_field::BitField::get_bit
get_bit(v, i) == ((v \div Pow2(i)) % 2) = 1

\* bit_field::BitField::get_bits(lo..=hi)
get_bits(v, lo, hi) == (v \div Pow2(lo)) % Pow2(hi - lo + 1)

\* bit i of x
Bit(x, i) == (x \div Pow2(i)) % 2

\* the word whose bit i is f[i]
Word16(f) ==
    f[0] + 2 * f[1] + 4 * f[2] + 8 * f[3] + 16 * f[4] + 32 * f[5] + 64 * f[6]
      + 128 * f[7] + 256 * f[8] + 512 * f[9] + 1024 * f[10] + 2048 * f[11]
      + 4096 * f[12] + 8192 * f[13] + 16384 * f[14] + 32768 * f[15]

\* a bitwise operator on two words
BitOp(op, a, b) ==
    Word16([i \in 0 .. 15 |->
               CASE op = "or"  -> IF Bit(a, i) + Bit(b, i) > 0 THEN 1 ELSE 0
                 [] op = "and" -> Bit(a, i) * Bit(b, i)
                 [] op = "xor" -> (Bit(a, i) + Bit(b, i)) % 2])

\* the element of a one-element set: its operands are evaluated once
Only(S) == CHOOSE r \in S : TRUE

\* u16 | u16, u16 & u16, u16 ^ u16, !u16
Or16(a, b) == Only({BitOp("or", x, y) : x \in {a}, y \in {b}})
And16(a, b) == Only({BitOp("and", x, y) : x \in {a}, y \in {b}})
Xor16(a, b) == Only({BitOp("xor", x, y) : x \in {a}, y \in {b}})
Not16(a) == 65535 - a

\* u16::rotate_left(n)
rotate_left(v, n) ==
    LET s == n % 16
    IN ((v * Pow2(s)) % 65536) + (v \div Pow2(16 - s))

\* usize::wrapping_add(a, d) followed by `% m`
WrappingAddRem(a, d, m) == (a + d) % m

\* usize::wrapping_sub(a, d) followed by `% m`: below zero the difference
\* wraps to 2^UsizeBits - (d - a), whose remainder is formed from 2^UsizeBits mod m
WrappingSubRem(a, d, m) ==
    IF a >= d THEN (a - d) % m
    ELSE (Pow2Mod(UsizeBits, m) + m - ((d - a) % m)) % m

-----------------------------------------------------------------------------
(* The graphics RAM *)

CgramGet(mem, a) == IF a \in DOMAIN mem THEN mem[a] ELSE 0

CgramSet(mem, a, w) ==
    Only({[x \in (IF v = 0 THEN DOMAIN mem \ {a} ELSE DOMAIN mem \cup {a}) |->
              IF x = a THEN v ELSE mem[x]] : v \in {w}})

-----------------------------------------------------------------------------
(* Return values *)

Ok(v) == [kind |-> "Ok", val |-> v, msg |-> ""]
Unexpected == [kind |-> "Unexpected", val |-> 0, msg |-> ""]
ContractViolation(m) == [kind |-> "ContractViolation", val |-> 0, msg |-> m]
FatalError(m) == [kind |-> "FatalError", val |-> 0, msg |-> m]
\* an index out of the bounds of the graphics RAM array
Panic == [kind |-> "Panic", val |-> 0, msg |-> "index out of bounds"]

-----------------------------------------------------------------------------
(* InternalRegs::default() and Hd66753::new_hle *)

InternalRegsDefault ==
    [cms |-> FALSE, sgs |-> FALSE, nl |-> 0,
     vr |-> 0, ct |-> 0,
     i_d |-> FALSE, am |-> 0, lg |-> 0, rt |-> 0,
     spt |-> FALSE, gsh |-> 0, gsl |-> 0, rev |-> FALSE, d |-> FALSE,
     wm |-> 0]

NoCall == [op |-> "none", offset |-> 0, val |-> 0]

\* the displays the emulator is built around: [width, height] in pixels
Displays == {[width |-> 8, height |-> 2]}

\* Hd66753Renderer::new for a display of the given set: the thread is spawned
\* and the kill channel is empty
RendererNew(displays) ==
    /\ dims \in displays
    /\ renderer = [pc |-> "start", cgram |-> << >>, copied |-> 0,
                   invert |-> FALSE, buffer |-> << >>,
                   exit_code |-> None]
    /\ window = [open |-> FALSE, escape |-> FALSE]
    /\ cgram_lock = "free"
    /\ kill = 0
    /\ teardown = "none"

Hd66753Renderer_new == RendererNew(Displays)

new_hle ==
    /\ Hd66753Renderer_new
    /\ write_byte_latch = None
    /\ read_byte_latch = None
    /\ ir = 0
    /\ ac = 0
    /\ cgram = << >>
    /\ ireg = InternalRegsDefault
    /\ call = NoCall
    /\ ret = Ok(0)
    /\ budget = MaxCalls

-----------------------------------------------------------------------------
(* EIDECon: probe, r32 and w32 of eide.rs.  IdeController is another module
   (devices::generic::ide): an access forwarded to it returns whatever it
   returns, held here as IdeResult of the register, and may leave either
   interrupt line in either state. *)

StubRead(level, v) == [kind |-> "StubRead", val |-> v, msg |-> level]
StubWrite(level) == [kind |-> "StubWrite", val |-> 0, msg |-> level]
Unimplemented == [kind |-> "Unimplemented", val |-> 0, msg |-> ""]
IdeResult(reg) == [kind |-> "IdeController", val |-> 0, msg |-> reg]

\* the timing registers 0x000 .. 0x01c, in the order of the fields they store to
EideTimingOffsets == {0, 4, 8, 12, 16, 20, 24, 28}

\* the offsets forwarded to IdeController on a read: 0x1e0 .. 0x1fc, 0x3f8, 0x3fc
EideIdeReadReg(offset) ==
    CASE offset = 480 -> "Data"
      [] offset = 484 -> "Error"
      [] offset = 488 -> "SectorCount"
      [] offset = 492 -> "SectorNo"
      [] offset = 496 -> "CylinderLo"
      [] offset = 500 -> "CylinderHi"
      [] offset = 504 -> "DeviceHead"
      [] offset = 508 -> "Status"
      [] offset = 1016 -> "AltStatus"
      [] offset = 1020 -> "DataLatch"
      [] OTHER -> ""

\* and on a write
EideIdeWriteReg(offset) ==
    CASE offset = 480 -> "Data"
      [] offset = 484 -> "Features"
      [] offset = 488 -> "SectorCount"
      [] offset = 492 -> "SectorNo"
      [] offset = 496 -> "CylinderLo"
      [] offset = 500 -> "CylinderHi"
      [] offset = 504 -> "DeviceHead"
      [] offset = 508 -> "Command"
      [] offset = 1016 -> "DevControl"
      [] offset = 1020 -> "DataLatch"
      [] OTHER -> ""

\* EIDECon::new: every field zero, and no interrupt raised yet
EIDECon_new ==
    eide = [timing |-> [o \in EideTimingOffsets |-> 0],
            dma_control |-> 0, dma_length |-> 0, dma_addr |-> 0, unknown |-> 0,
            irq0 |-> FALSE, irq1 |-> FALSE,
            call |-> NoCall, ret |-> Ok(0), budget |-> MaxEideCalls]

\* Device::probe of EIDECon
eide_probe(offset) ==
    CASE offset = 0 -> [kind |-> "Register", name |-> "IDE0 Primary Timing 0"]
      [] offset = 4 -> [kind |-> "Register", name |-> "IDE0 Primary Timing 1"]
      [] offset = 8 -> [kind |-> "Register", name |-> "IDE0 Secondary Timing 0"]
      [] offset = 12 -> [kind |-> "Register", name |-> "IDE0 Secondary Timing 1"]
      [] offset = 16 -> [kind |-> "Register", name |-> "IDE1 Primary Timing 0"]
      [] offset = 20 -> [kind |-> "Register", name |-> "IDE1 Primary Timing 1"]
      [] offset = 24 -> [kind |-> "Register", name |-> "IDE1 Secondary Timing 0"]
      [] offset = 28 -> [kind |-> "Register", name |-> "IDE1 Secondary Timing 1"]
      [] offset = 40 -> [kind |-> "Register", name |-> "IDE0 Cfg"]
      [] offset = 44 -> [kind |-> "Register", name |-> "IDE1 Cfg"]
      [] offset = 480 -> [kind |-> "Register", name |-> "Data"]
      [] offset = 484 -> [kind |-> "Register", name |-> "Error/Features"]
      [] offset = 488 -> [kind |-> "Register", name |-> "Sector Count"]
      [] offset = 492 -> [kind |-> "Register", name |-> "Sector Number"]
      [] offset = 496 -> [kind |-> "Register", name |-> "Cylinder Low"]
      [] offset = 500 -> [kind |-> "Register", name |-> "Cylinder High"]
      [] offset = 504 -> [kind |-> "Register", name |-> "Device Head"]
      [] offset = 508 -> [kind |-> "Register", name |-> "Status/Command"]
      [] offset = 1016 -> [kind |-> "Register", name |-> "AltStatus/DeviceControl"]
      [] offset = 1020 -> [kind |-> "Register", name |-> "Data Latch"]
      [] offset = 1024 -> [kind |-> "Register", name |-> "DMA Control"]
      [] offset = 1032 -> [kind |-> "Register", name |-> "DMA Length"]
      [] offset = 1036 -> [kind |-> "Register", name |-> "DMA Addr"]
      [] offset = 1040 -> [kind |-> "Register", name |-> "?"]
      [] OTHER -> [kind |-> "Unmapped", name |-> ""]

\* what the Hd66753 side of the state is left as by an access to EIDECon
EideOnly ==
    UNCHANGED <<write_byte_latch, read_byte_latch, ir, ac, cgram, ireg,
                call, ret, budget, dims, renderer, window, cgram_lock, kill,
                teardown>>

eide_r32(offset) ==
    /\ renderer.pc # "exited"
    /\ eide.budget > 0
    /\ EideOnly
    /\ \E irq0, irq1 \in BOOLEAN :
         LET r == CASE offset \in EideTimingOffsets -> Ok(eide.timing[offset])
                    [] offset = 40 ->
                         StubRead("Info", (IF eide.irq0 THEN 16 ELSE 0)
                                            + (IF eide.irq1 THEN 32 ELSE 0))
                    [] offset = 44 -> Unimplemented
                    [] EideIdeReadReg(offset) # "" -> IdeResult(EideIdeReadReg(offset))
                    [] offset = 1024 -> StubRead("Error", eide.dma_control)
                    [] offset = 1032 -> StubRead("Error", eide.dma_length)
                    [] offset = 1036 -> StubRead("Error", eide.dma_addr)
                    [] offset = 1040 -> StubRead("Error", eide.unknown)
                    [] OTHER -> Unexpected
             forwarded == EideIdeReadReg(offset) # ""
         IN /\ ~forwarded => (irq0 = eide.irq0 /\ irq1 = eide.irq1)
            /\ eide' = [eide EXCEPT
                            !.irq0 = irq0, !.irq1 = irq1,
                            !.call = [op |-> "r32", offset |-> offset, val |-> 0],
                            !.ret = r,
                            !.budget = eide.budget - 1]

eide_w32(offset, val) ==
    /\ renderer.pc # "exited"
    /\ eide.budget > 0
    /\ EideOnly
    /\ \E irq0, irq1 \in BOOLEAN :
         LET forwarded == EideIdeWriteReg(offset) # ""
             r == CASE offset \in EideTimingOffsets -> Ok(0)
                    [] offset = 40 -> StubWrite("Info")
                    [] offset = 44 -> Unimplemented
                    [] forwarded -> IdeResult(EideIdeWriteReg(offset))
                    [] offset \in {1024, 1032, 1036, 1040} -> StubWrite("Error")
                    [] OTHER -> Unexpected
         IN /\ ~forwarded =>
                 /\ irq0 = (eide.irq0 /\ ~(offset = 40 /\ get_bit(val, 4)))
                 /\ irq1 = (eide.irq1 /\ ~(offset = 40 /\ get_bit(val, 5)))
            /\ eide' = [eide EXCEPT
                            !.timing = IF offset \in EideTimingOffsets
                                           THEN [@ EXCEPT ![offset] = val] ELSE @,
                            !.dma_control = IF offset = 1024 THEN val ELSE @,
                            !.dma_length = IF offset = 1032 THEN val ELSE @,
                            !.dma_addr = IF offset = 1036 THEN val ELSE @,
                            !.unknown = IF offset = 1040 THEN val ELSE @,
                            !.irq0 = irq0, !.irq1 = irq1,
                            !.call = [op |-> "w32", offset |-> offset, val |-> val],
                            !.ret = r,
                            !.budget = eide.budget - 1]

-----------------------------------------------------------------------------
(* Hd66753::handle_data, one operator per command *)

\* what handle_data leaves behind: its return value and the fields it may set
Outcome(r, a, mem, regs) == [ret |-> r, ac |-> a, cgram |-> mem, ireg |-> regs]

\* 0x01, Driver output control
DriverOutputControl(val) ==
    Outcome(Ok(0), ac, cgram,
            [ireg EXCEPT !.cms = get_bit(val, 9),
                         !.sgs = get_bit(val, 8),
                         !.nl = get_bits(val, 0, 4)])

\* ContrastControl with CT taken one bit too wide, bits 7..0
ContrastControlEightBits(val) ==
    Outcome(Ok(0), ac, cgram,
            [ireg EXCEPT !.vr = get_bits(val, 8, 10),
                         !.ct = get_bits(val, 0, 7)])

\* 0x04, Contrast Control
ContrastControl(val) ==
    Outcome(Ok(0), ac, cgram,
            [ireg EXCEPT !.vr = get_bits(val, 8, 10),
                         !.ct = get_bits(val, 0, 6)])

\* EntryMode with the check made on the LG field in place of AM
EntryModeChecksLg(val) ==
    LET regs == [ireg EXCEPT !.i_d = get_bit(val, 4),
                             !.am = get_bits(val, 2, 3),
                             !.lg = get_bits(val, 0, 1)]
    IN Outcome(IF regs.lg = 3
                   THEN ContractViolation("0b11 is an invalid LCD EntryMode:AM value")
                   ELSE Ok(0),
               ac, cgram, regs)

\* 0x05, Entry Mode: the fields are assigned, then AM is checked
EntryMode(val) ==
    LET regs == [ireg EXCEPT !.i_d = get_bit(val, 4),
                             !.am = get_bits(val, 2, 3),
                             !.lg = get_bits(val, 0, 1)]
    IN Outcome(IF regs.am = 3
                   THEN ContractViolation("0b11 is an invalid LCD EntryMode:AM value")
                   ELSE Ok(0),
               ac, cgram, regs)

\* 0x06, Rotation
Rotation(val) ==
    Outcome(Ok(0), ac, cgram, [ireg EXCEPT !.rt = get_bits(val, 0, 2)])

\* 0x07, Display Control
DisplayControl(val) ==
    Outcome(Ok(0), ac, cgram,
            [ireg EXCEPT !.spt = get_bit(val, 8),
                         !.gsh = get_bits(val, 4, 5),
                         !.gsl = get_bits(val, 2, 3),
                         !.rev = get_bit(val, 1),
                         !.d = get_bit(val, 0)])

\* 0x10, RAM Write Data Mask
WriteDataMask(val) == Outcome(Ok(0), ac, cgram, [ireg EXCEPT !.wm = val])

\* 0x11, RAM Address Set
RamAddressSet(val) == Outcome(Ok(0), val % AC_MODULUS, cgram, ireg)

\* GraphicsOp with the write mask the wrong way round
GraphicsOpMaskInverted(old_val, val, rt, lg, wm) ==
    LET rot == rotate_left(val, rt * 2)
        comb == CASE lg = 0 -> rot
                  [] lg = 1 -> Or16(old_val, rot)
                  [] lg = 2 -> And16(old_val, rot)
                  [] lg = 3 -> Xor16(old_val, rot)
    IN Or16(And16(old_val, Not16(wm)), And16(comb, wm))

\* 0x12, the word stored: rotation, logical op, write mask
GraphicsOp(old_val, val, rt, lg, wm) ==
    LET rot == rotate_left(val, rt * 2)
        comb == CASE lg = 0 -> rot
                  [] lg = 1 -> Or16(old_val, rot)
                  [] lg = 2 -> And16(old_val, rot)
                  [] lg = 3 -> Xor16(old_val, rot)
    IN Or16(And16(old_val, wm), And16(comb, Not16(wm)))

\* NextAc without the last `self.ac %= 0x1080`
NextAcNoLastRem(a, i_d, dx_ac) ==
    LET a1 == IF i_d THEN WrappingAddRem(a, dx_ac, AC_MODULUS)
                     ELSE WrappingSubRem(a, dx_ac, AC_MODULUS)
    IN IF a1 % 32 > 20
           THEN IF i_d THEN (a1 - (a1 % 32)) + 32
                       ELSE (a1 - (a1 % 32)) + 20
           ELSE a1

\* NextAc without the step over the invalid columns 0x15-0x1f
NextAcNoColumnWrap(a, i_d, dx_ac) ==
    IF i_d THEN WrappingAddRem(a, dx_ac, AC_MODULUS)
           ELSE WrappingSubRem(a, dx_ac, AC_MODULUS)

\* 0x12, the Address Counter after a write that advances it by dx_ac
\* NextAc with the column test one too far, > 0x15
NextAcColumnOffByOne(a, i_d, dx_ac) ==
    LET a1 == IF i_d THEN WrappingAddRem(a, dx_ac, AC_MODULUS)
                     ELSE WrappingSubRem(a, dx_ac, AC_MODULUS)
        a2 == IF a1 % 32 > 21
                  THEN IF i_d THEN (a1 - (a1 % 32)) + 32
                              ELSE (a1 - (a1 % 32)) + 20
                  ELSE a1
    IN a2 % AC_MODULUS

NextAc(a, i_d, dx_ac) ==
    LET a1 == IF i_d THEN WrappingAddRem(a, dx_ac, AC_MODULUS)
                     ELSE WrappingSubRem(a, dx_ac, AC_MODULUS)
        a2 == IF a1 % 32 > 20
                  THEN IF i_d THEN (a1 - (a1 % 32)) + 32
                              ELSE (a1 - (a1 % 32)) + 20
                  ELSE a1
    IN a2 % AC_MODULUS

\* 0x12, Write Data to CGRAM: the word is stored before AM is looked at
\* WriteDataToCgram with the vertical write (AM = 0b01) carried out, one row
\* per write, in place of unimplemented!()
WriteDataToCgramVertical(val) ==
    IF ac >= EMU_CGRAM_LEN THEN Outcome(Panic, ac, cgram, ireg)
    ELSE
    LET old_val == CgramGet(cgram, ac)
        new_val == GraphicsOp(old_val, val, ireg.rt, ireg.lg, ireg.wm)
        mem == CgramSet(cgram, ac, new_val)
    IN CASE ireg.am = 0 -> Outcome(Ok(0), NextAc(ac, ireg.i_d, 1), mem, ireg)
         [] ireg.am = 1 -> Outcome(Ok(0), NextAc(ac, ireg.i_d, 32), mem, ireg)
         [] ireg.am = 2 ->
              Outcome(FatalError("unimplemented: two-word vertical CGRAM write"),
                      ac, mem, ireg)
         [] ireg.am = 3 ->
              Outcome(FatalError("EntryMode:AM cannot be set to 0b11"), ac, mem, ireg)

WriteDataToCgram(val) ==
    IF ac >= EMU_CGRAM_LEN THEN Outcome(Panic, ac, cgram, ireg)
    ELSE
    LET old_val == CgramGet(cgram, ac)
        new_val == GraphicsOp(old_val, val, ireg.rt, ireg.lg, ireg.wm)
        mem == CgramSet(cgram, ac, new_val)
    IN CASE ireg.am = 0 -> Outcome(Ok(0), NextAc(ac, ireg.i_d, 1), mem, ireg)
         [] ireg.am = 1 ->
              Outcome(FatalError("unimplemented: vertical CGRAM write"), ac, mem, ireg)
         [] ireg.am = 2 ->
              Outcome(FatalError("unimplemented: two-word vertical CGRAM write"),
                      ac, mem, ireg)
         [] ireg.am = 3 ->
              Outcome(FatalError("EntryMode:AM cannot be set to 0b11"), ac, mem, ireg)

\* the commands of the unimplemented_cmd!() arms: 0x02, 0x03, 0x08, 0x0b-0x0e
UnimplementedCmds == {2, 3, 8, 11, 12, 13, 14}

\* the commands with an arm of their own that is not unimplemented_cmd!()
ImplementedCmds == {1, 4, 5, 6, 7, 9, 10, 16, 17, 18}

\* handle_data with 0x0b (Read Data of Cursor) taken as a no-op like 0x09, 0x0a
handle_dataCursorNoOp(val) ==
    CASE ir = 1 -> DriverOutputControl(val)
      [] ir = 4 -> ContrastControl(val)
      [] ir = 5 -> EntryMode(val)
      [] ir = 6 -> Rotation(val)
      [] ir = 7 -> DisplayControl(val)
      [] ir \in {9, 10, 11} -> Outcome(Ok(0), ac, cgram, ireg)
      [] ir = 16 -> WriteDataMask(val)
      [] ir = 17 -> RamAddressSet(val)
      [] ir = 18 -> WriteDataToCgram(val)
      [] ir \in UnimplementedCmds ->
           Outcome(FatalError("unimplemented: LCD command"), ac, cgram, ireg)
      [] OTHER ->
           Outcome(FatalError("attempted to execute invalid LCD command"),
                   ac, cgram, ireg)

handle_data(val) ==
    CASE ir = 1 -> DriverOutputControl(val)
      [] ir = 4 -> ContrastControl(val)
      [] ir = 5 -> EntryMode(val)
      [] ir = 6 -> Rotation(val)
      [] ir = 7 -> DisplayControl(val)
      [] ir \in {9, 10} -> Outcome(Ok(0), ac, cgram, ireg)
      [] ir = 16 -> WriteDataMask(val)
      [] ir = 17 -> RamAddressSet(val)
      [] ir = 18 -> WriteDataToCgram(val)
      [] ir \in UnimplementedCmds ->
           Outcome(FatalError("unimplemented: LCD command"), ac, cgram, ireg)
      [] OTHER ->
           Outcome(FatalError("attempted to execute invalid LCD command"),
                   ac, cgram, ireg)

-----------------------------------------------------------------------------
(* impl Memory for Hd66753 *)

\* w32 at offset 0x8: IR is assigned, then checked against 0x12
CommandWrite(val) ==
    [ir |-> val,
     ret |-> IF val > IR_MAX THEN ContractViolation("set invalid LCD Command")
                             ELSE Ok(0)]

\* Device::probe: the register at an offset, or Probe::Unmapped
probe(offset) ==
    CASE offset = 0 -> [kind |-> "Register", name |-> "LCD Control"]
      [] offset = 8 -> [kind |-> "Register", name |-> "LCD Command"]
      [] offset = 16 -> [kind |-> "Register", name |-> "LCD Data"]
      [] OTHER -> [kind |-> "Unmapped", name |-> ""]

\* Combine with the two bytes in the other order
CombineLowFirst(hi, lo) == lo * 256 + hi

\* the 16-bit value w32 forms from the latched byte and the byte written
Combine(hi, lo) == hi * 256 + lo

\* the 16-bit value r32 reads at an offset, None where it returns Unexpected
ReadValue(offset) ==
    CASE offset = 0 -> Some(0)
      [] offset = 8 -> Some(ireg.ct)
      [] OTHER -> None

\* the byte r32 latches, `val as u8`, and the byte it returns first, `val >> 8`
LowByte(val) == AsU8(val)

\* HighByte returning the low byte first
HighByteIsLow(val) == val % 256

HighByte(val) == val \div 256

\* the guest runs while the process has not exited and the controller lives
DriverRuns == renderer.pc # "exited" /\ teardown = "none"

\* w32 granting itself the write lock whether or not the renderer reads
WriteLockAlways == TRUE

\* cgram.write(): granted when the renderer does not hold the read lock
WriteLockGranted == cgram_lock = "free"

\* the one access that takes the lock: a completed Data write under IR = 0x12
AcquiresCgramLock(offset) == write_byte_latch # None /\ offset = 16 /\ ir = 18

r32(offset) ==
    /\ DriverRuns
    /\ ret.kind # "Panic"
    /\ budget > 0
    /\ budget' = budget - 1
    /\ call' = [op |-> "r32", offset |-> offset, val |-> 0]
    /\ IF read_byte_latch # None
       THEN /\ read_byte_latch' = None
            /\ ret' = Ok(Unwrap(read_byte_latch))
       ELSE IF ReadValue(offset) = None
       THEN /\ ret' = Unexpected
            /\ UNCHANGED read_byte_latch
       ELSE /\ read_byte_latch' = Some(LowByte(Unwrap(ReadValue(offset))))
            /\ ret' = Ok(HighByte(Unwrap(ReadValue(offset))))
    /\ UNCHANGED <<write_byte_latch, ir, ac, cgram, ireg>>
    /\ UNCHANGED rvars
    /\ UNCHANGED eide

w32(offset, v) ==
    /\ DriverRuns
    /\ AcquiresCgramLock(offset) => WriteLockGranted
    /\ UNCHANGED rvars
    /\ UNCHANGED eide
    /\ ret.kind # "Panic"
    /\ budget > 0
    /\ budget' = budget - 1
    /\ call' = [op |-> "w32", offset |-> offset, val |-> v]
    /\ IF write_byte_latch = None
       THEN /\ write_byte_latch' = Some(AsU8(v))
            /\ ret' = Ok(0)
            /\ UNCHANGED <<read_byte_latch, ir, ac, cgram, ireg>>
       ELSE LET val == Combine(Unwrap(write_byte_latch), AsU8(v))
            IN /\ write_byte_latch' = None
               /\ UNCHANGED read_byte_latch
               /\ CASE offset = 8 ->
                         /\ ir' = CommandWrite(val).ir
                         /\ ret' = CommandWrite(val).ret
                         /\ UNCHANGED <<ac, cgram, ireg>>
                    [] offset = 16 ->
                         \E out \in {handle_data(val)} :
                             /\ ret' = out.ret
                             /\ ac' = out.ac
                             /\ cgram' = out.cgram
                             /\ ireg' = out.ireg
                             /\ UNCHANGED ir
                    [] OTHER ->
                         /\ ret' = Unexpected
                         /\ UNCHANGED <<ir, ac, cgram, ireg>>

-----------------------------------------------------------------------------
(* The guest: bus accesses at the offsets and with the values below *)

\* 0x0 LCD Control, 0x4 (no register), 0x8 LCD Command, 0x10 LCD Data
Offsets == {0, 4, 8, 16}

\* 0x00, 0x04, 0x05, 0x0c, 0x0f, 0x13 and 0x112 (0x12 once cut to 8 bits)
Vals == {0, 4, 5, 12, 15, 19, 274}

Read == \E offset \in Offsets : r32(offset)

Write == \E offset \in Offsets, v \in Vals : w32(offset, v)

Init == new_hle /\ EIDECon_new

Next == Read \/ Write

Spec == Init /\ [][Next]_vars

-----------------------------------------------------------------------------
(* The Address Counter on a programmed controller.  The guest has set Entry
   Mode (0x05: any I/D and AM; AM = 0b11 is stored although refused), set AC
   with RAM Address Set (0x11: any address below 0x1080) and selected RAM
   Address Set or Write Data to CGRAM (IR = 0x11 or 0x12); it now writes the
   Data register. *)

\* the byte the guest writes to Data, 0xa5
AcVals == {165}

InitAc ==
    /\ Hd66753Renderer_new
    /\ EIDECon_new
    /\ write_byte_latch = None
    /\ read_byte_latch = None
    /\ ir \in {17, 18}
    /\ ac \in 0 .. (AC_MODULUS - 1)
    /\ cgram = << >>
    /\ \E i_d \in BOOLEAN, am \in 0 .. 3 :
           ireg = [InternalRegsDefault EXCEPT !.i_d = i_d, !.am = am]
    /\ call = NoCall
    /\ ret = Ok(0)
    /\ budget = MaxAcCalls

NextAcData == \E v \in AcVals : w32(16, v)

SpecAc == InitAc /\ [][NextAcData]_vars

-----------------------------------------------------------------------------
(* The graphics operation on a programmed controller.  The guest has set
   Entry Mode, Rotation (0x06), the write mask (0x10) and AC, has filled some
   words of the graphics RAM and selected Write Data to CGRAM (IR = 0x12); it
   now writes the Data register. *)

\* addresses written to: first and last valid column of row 0, the last word
GopAddrs == {0, 20, 4223}

\* addresses around them that hold the word 0x1234 and are not written to
GopBackground == {1, 19, 21, 32, 3700, 4212, 4222}

\* the word at AC before the write: 0x0000, 0x8001, 0x1234, 0xffff
GopOld == {0, 32769, 4660, 65535}

\* write masks: 0x0000, 0x00ff, 0xa0c3, 0xffff
GopMasks == {0, 255, 41155, 65535}

\* the bytes the guest writes to Data: 0x00, 0x3c, 0x81, 0xff
GopVals == {0, 60, 129, 255}

InitGop ==
    /\ Hd66753Renderer_new
    /\ EIDECon_new
    /\ write_byte_latch = None
    /\ read_byte_latch = None
    /\ ir = 18
    /\ ac \in GopAddrs
    /\ \E o \in GopOld :
           cgram = CgramSet([a \in GopBackground |-> 4660], ac, o)
    /\ \E am \in {0, 1}, lg \in 0 .. 3, rt \in 0 .. 7, wm \in GopMasks :
           ireg = [InternalRegsDefault EXCEPT
                       !.i_d = TRUE, !.am = am, !.lg = lg, !.rt = rt, !.wm = wm]
    /\ call = NoCall
    /\ ret = Ok(0)
    /\ budget = MaxGopCalls

NextGopData == \E v \in GopVals : w32(16, v)

SpecGop == InitGop /\ [][NextGopData]_vars

-----------------------------------------------------------------------------
(* The command registers on a programmed controller.  The guest has selected
   a command that stores fields or one that is not implemented, has programmed
   the registers before (all fields clear, or all fields set), and may have
   left the low byte of an earlier read (0 from LCD Control, 0x7f from a
   contrast of 0x7f) in the read latch; it now writes the Data register and
   reads LCD Command. *)

\* the commands whose Data write stores fields: 0x01, 0x04 .. 0x07, 0x10, 0x11
RegCmds == {1, 4, 5, 6, 7, 16, 17}

\* the bytes the guest writes to Data: 0x00, 0x5a, 0xa5, 0xff
RegBytes == {0, 90, 165, 255}

\* every field as 0x01 .. 0x10 leave it when written with 0xffff and AM = 0b10
InternalRegsAllSet ==
    [cms |-> TRUE, sgs |-> TRUE, nl |-> 31,
     vr |-> 7, ct |-> 127,
     i_d |-> TRUE, am |-> 2, lg |-> 3, rt |-> 7,
     spt |-> TRUE, gsh |-> 3, gsl |-> 3, rev |-> TRUE, d |-> TRUE,
     wm |-> 65535]

InitReg ==
    /\ Hd66753Renderer_new
    /\ EIDECon_new
    /\ write_byte_latch = None
    /\ read_byte_latch \in {None, Some(0), Some(127)}
    /\ ir \in RegCmds \cup UnimplementedCmds
    /\ ac = 100
    /\ cgram = << >>
    /\ ireg \in {InternalRegsDefault, InternalRegsAllSet}
    /\ call = NoCall
    /\ ret = Ok(0)
    /\ budget = MaxRegCalls

RegData == \E v \in RegBytes : w32(16, v)

RegRead == r32(8)

NextReg == RegData \/ RegRead

SpecReg == InitReg /\ [][NextReg]_vars

-----------------------------------------------------------------------------
(* The renderer thread of Hd66753Renderer::new, one action per statement that
   another thread can tell apart: the prologue, the loop test, the read lock,
   the copy of the graphics RAM (in CopyChunks pieces), the release of the
   lock, the load of the invert flag, the decode into the buffer, the update
   of the window (which also waits out the frame), and std::process::exit. *)

\* the words in a row of the graphics RAM, EMU_CGRAM_WIDTH * 2 / 8 / 2
RowWords == ((EMU_CGRAM_WIDTH * 2) \div 8) \div 2

\* WordsPerRow without the last halving: the bytes of a row
WordsPerRowBytes(width) == (width * 2) \div 8

\* the words of a row that are decoded, width * 2 / 8 / 2 of the widened width
WordsPerRow(width) == ((width * 2) \div 8) \div 2

Min(a, b) == IF a < b THEN a ELSE b

\* DecodePixel with the two branches exchanged
DecodePixelSwapped(w, i, invert) ==
    LET idx == (w \div Pow2(i * 2)) % 4
    IN IF invert THEN PALETTE[(3 - idx) + 1] ELSE PALETTE[idx + 1]

\* DecodePixel that never complements the index
DecodePixelNoComplement(w, i, invert) ==
    LET idx == (w \div Pow2(i * 2)) % 4
    IN PALETTE[idx + 1]

\* the colour of pixel i of word w
DecodePixel(w, i, invert) ==
    LET idx == (w \div Pow2(i * 2)) % 4
    IN IF invert THEN PALETTE[idx + 1] ELSE PALETTE[(3 - idx) + 1]

\* new_buf: the first height rows, of each its first words last to first, of
\* each word its pixels 7 down to 0
DecodeFrame(mem, width, height, invert) ==
    LET rows == Min(height, EMU_CGRAM_LEN \div RowWords)
        wpr == Min(WordsPerRow(width), RowWords)
    IN [k \in 1 .. ((rows * wpr) * 8) |->
            LET p == k - 1
                row == p \div (wpr * 8)
                j == (p % (wpr * 8)) \div 8
                i == 7 - (p % 8)
            IN DecodePixel(CgramGet(mem, (row * RowWords) + ((wpr - 1) - j)),
                           i, invert)]

\* the copy so far, with piece k of the graphics RAM added to it
CopyChunk(copy, mem, k) ==
    LET lo == ((k - 1) * EMU_CGRAM_LEN) \div CopyChunks
        hi == (k * EMU_CGRAM_LEN) \div CopyChunks
        piece == {a \in DOMAIN mem : lo <= a /\ a < hi}
    IN [a \in DOMAIN copy \cup piece |->
            IF a \in DOMAIN copy THEN copy[a] ELSE mem[a]]

\* the process lives until the renderer has called std::process::exit
Running == renderer.pc # "exited"

\* the buffer is allocated and the window created
RendererStart ==
    /\ renderer.pc = "start"
    /\ renderer' = [renderer EXCEPT
                        !.pc = "check",
                        !.buffer = [k \in 1 .. ((dims.width + HACK_WIDTH) * dims.height)
                                        |-> 0]]
    /\ window' = [window EXCEPT !.open = TRUE]
    /\ UNCHANGED <<eide, write_byte_latch, read_byte_latch, ir, ac, cgram, ireg,
                   call, ret, budget, dims, cgram_lock, kill, teardown>>

\* RendererLoopCheck without the test of the kill channel
RendererLoopCheckNoKill ==
    /\ renderer.pc = "check"
    /\ renderer' = [renderer EXCEPT
                        !.pc = IF window.open /\ ~window.escape
                                   THEN "lock" ELSE "exit"]
    /\ UNCHANGED <<eide, write_byte_latch, read_byte_latch, ir, ac, cgram, ireg,
                   call, ret, budget, dims, window, cgram_lock, kill, teardown>>

\* while window.is_open() && kill_rx.is_empty() && !window.is_key_down(Escape)
RendererLoopCheck ==
    /\ renderer.pc = "check"
    /\ renderer' = [renderer EXCEPT
                        !.pc = IF window.open /\ kill = 0 /\ ~window.escape
                                   THEN "lock" ELSE "exit"]
    /\ UNCHANGED <<eide, write_byte_latch, read_byte_latch, ir, ac, cgram, ireg,
                   call, ret, budget, dims, window, cgram_lock, kill, teardown>>

\* cgram.read(): w32 holds the write lock within one step only, so the read
\* lock is granted whenever the renderer asks for it
RendererLock ==
    /\ renderer.pc = "lock"
    /\ cgram_lock = "free"
    /\ cgram_lock' = "read"
    /\ renderer' = [renderer EXCEPT !.pc = "copy", !.cgram = << >>, !.copied = 0]
    /\ UNCHANGED <<eide, write_byte_latch, read_byte_latch, ir, ac, cgram, ireg,
                   call, ret, budget, dims, window, kill, teardown>>

\* the copy out of the guard, a piece at a time
RendererCopy ==
    /\ renderer.pc = "copy"
    /\ renderer.copied < CopyChunks
    /\ renderer' = [renderer EXCEPT
                        !.cgram = CopyChunk(renderer.cgram, cgram, renderer.copied + 1),
                        !.copied = renderer.copied + 1]
    /\ UNCHANGED <<eide, write_byte_latch, read_byte_latch, ir, ac, cgram, ireg,
                   call, ret, budget, dims, window, cgram_lock, kill, teardown>>

\* RendererUnlock that keeps the guard for the rest of the iteration
RendererKeepsGuard ==
    /\ renderer.pc = "copy"
    /\ renderer.copied = CopyChunks
    /\ renderer' = [renderer EXCEPT !.pc = "load"]
    /\ UNCHANGED <<eide, write_byte_latch, read_byte_latch, ir, ac, cgram, ireg,
                   call, ret, budget, dims, window, cgram_lock, kill, teardown>>

\* the guard is a temporary: it is dropped at the end of the statement
RendererUnlock ==
    /\ renderer.pc = "copy"
    /\ renderer.copied = CopyChunks
    /\ cgram_lock' = "free"
    /\ renderer' = [renderer EXCEPT !.pc = "load"]
    /\ UNCHANGED <<eide, write_byte_latch, read_byte_latch, ir, ac, cgram, ireg,
                   call, ret, budget, dims, window, kill, teardown>>

\* invert.load(Ordering::Relaxed)
RendererLoadInvert ==
    /\ renderer.pc = "load"
    /\ renderer' = [renderer EXCEPT !.pc = "decode", !.invert = ireg.rev]
    /\ UNCHANGED <<eide, write_byte_latch, read_byte_latch, ir, ac, cgram, ireg,
                   call, ret, budget, dims, window, cgram_lock, kill, teardown>>

\* buffer.splice(.., new_buf) and the assert_eq! on its length
RendererDecode ==
    /\ renderer.pc = "decode"
    /\ \E new_buf \in {DecodeFrame(renderer.cgram, dims.width + HACK_WIDTH,
                                   dims.height, renderer.invert)} :
           renderer' = [renderer EXCEPT
                            !.buffer = new_buf,
                            !.pc = IF Len(new_buf)
                                        = (dims.width + HACK_WIDTH) * dims.height
                                       THEN "present" ELSE "panicked"]
    /\ UNCHANGED <<eide, write_byte_latch, read_byte_latch, ir, ac, cgram, ireg,
                   call, ret, budget, dims, window, cgram_lock, kill, teardown>>

\* window.update_with_buffer, which returns when the frame time is over
RendererPresent ==
    /\ renderer.pc = "present"
    /\ renderer' = [renderer EXCEPT !.pc = "check"]
    /\ UNCHANGED <<eide, write_byte_latch, read_byte_latch, ir, ac, cgram, ireg,
                   call, ret, budget, dims, window, cgram_lock, kill, teardown>>

\* RendererExit as the end of the thread alone: the closure returns
RendererReturns ==
    /\ renderer.pc = "exit"
    /\ renderer' = [renderer EXCEPT !.pc = "returned"]
    /\ UNCHANGED <<eide, write_byte_latch, read_byte_latch, ir, ac, cgram, ireg,
                   call, ret, budget, dims, window, cgram_lock, kill, teardown>>

\* std::process::exit(0)
RendererExit ==
    /\ renderer.pc = "exit"
    /\ renderer' = [renderer EXCEPT !.pc = "exited", !.exit_code = Some(0)]
    /\ UNCHANGED <<eide, write_byte_latch, read_byte_latch, ir, ac, cgram, ireg,
                   call, ret, budget, dims, window, cgram_lock, kill, teardown>>

Renderer ==
    \/ RendererStart
    \/ RendererLoopCheck
    \/ RendererLock
    \/ RendererCopy
    \/ RendererUnlock
    \/ RendererLoadInvert
    \/ RendererDecode
    \/ RendererPresent
    \/ RendererExit

\* the user closes the window
UserClose ==
    /\ Running
    /\ window.open
    /\ window' = [window EXCEPT !.open = FALSE]
    /\ UNCHANGED <<eide, write_byte_latch, read_byte_latch, ir, ac, cgram, ireg,
                   call, ret, budget, dims, renderer, cgram_lock, kill, teardown>>

\* the user holds the Escape key down
UserEscape ==
    /\ Running
    /\ window.open
    /\ ~window.escape
    /\ window' = [window EXCEPT !.escape = TRUE]
    /\ UNCHANGED <<eide, write_byte_latch, read_byte_latch, ir, ac, cgram, ireg,
                   call, ret, budget, dims, renderer, cgram_lock, kill, teardown>>

\* the owner lets go of the controller: Drop for Hd66753Renderer is entered
DropBegin ==
    /\ Running
    /\ teardown = "none"
    /\ teardown' = "send"
    /\ UNCHANGED <<eide, write_byte_latch, read_byte_latch, ir, ac, cgram, ireg,
                   call, ret, budget, dims, renderer, window, cgram_lock, kill>>

\* DropSend on a channel without a slot, chan::bounded(0): the message is
\* handed over only while the renderer is at its loop test
DropSendRendezvous ==
    /\ Running
    /\ teardown = "send"
    /\ renderer.pc = "check"
    /\ kill' = kill + 1
    /\ teardown' = "done"
    /\ UNCHANGED <<eide, write_byte_latch, read_byte_latch, ir, ac, cgram, ireg,
                   call, ret, budget, dims, renderer, window, cgram_lock>>

\* let _ = self.kill_tx.send(()): waits for room in the channel, and fails at
\* once when the renderer has panicked and its receiver is gone
DropSend ==
    /\ Running
    /\ teardown = "send"
    /\ renderer.pc = "panicked" \/ kill < KillCapacity
    /\ kill' = IF renderer.pc = "panicked" THEN kill ELSE kill + 1
    /\ teardown' = "done"
    /\ UNCHANGED <<eide, write_byte_latch, read_byte_latch, ir, ac, cgram, ireg,
                   call, ret, budget, dims, renderer, window, cgram_lock>>

-----------------------------------------------------------------------------
(* The renderer beside the guest.  The guest has selected Display Control or
   Write Data to CGRAM (IR = 0x07 or 0x12) with AC at 0 in increment mode; the
   graphics RAM is clear or holds a picture; the guest writes the Data
   register and reads LCD Command while the renderer runs, the user closes
   the window or holds Escape, and the owner drops the controller. *)

\* the bytes the guest writes to Data: 0x00, 0xff
RenderBytes == {0, 255}

\* a picture: the word 0xffff at 0 and 0x1b1b at 33; 1 and 32 hold 0x0000
RenderPicture == [a \in {0, 33} |-> IF a = 0 THEN 65535 ELSE 6939]

InitRender ==
    /\ Hd66753Renderer_new
    /\ EIDECon_new
    /\ write_byte_latch = None
    /\ read_byte_latch = None
    /\ ir \in {7, 18}
    /\ ac = 0
    /\ cgram \in {<< >>, RenderPicture}
    /\ ireg = [InternalRegsDefault EXCEPT !.i_d = TRUE]
    /\ call = NoCall
    /\ ret = Ok(0)
    /\ budget = MaxRenderCalls

RenderData == \E v \in RenderBytes : w32(16, v)

RenderRead == r32(8)

NextRender ==
    \/ RenderData
    \/ RenderRead
    \/ Renderer
    \/ UserClose
    \/ UserEscape
    \/ DropBegin
    \/ DropSend

SpecRender == InitRender /\ [][NextRender]_vars

\* the renderer thread is scheduled again and again
SpecRenderFair == SpecRender /\ WF_vars(Renderer)

-----------------------------------------------------------------------------
(* The renderer over the displays a controller can be built for.  new_hle
   takes any width and height; the guest writes one 16-bit value to Data
   under Display Control or Write Data to CGRAM while the renderer runs, and
   the user closes the window. *)

\* displays whose widened width is a multiple of 8 and at most 256, of at most
\* 132 rows: the smallest, the largest, and the 160 x 128 of the real panel
FittingDisplays ==
    {[width |-> 0, height |-> 1], [width |-> 0, height |-> 132],
     [width |-> 8, height |-> 2], [width |-> 160, height |-> 128],
     [width |-> 248, height |-> 1], [width |-> 248, height |-> 132]}

\* displays that miss one of the three conditions
OtherDisplays ==
    {[width |-> 4, height |-> 1], [width |-> 256, height |-> 1],
     [width |-> 0, height |-> 133]}

InitFrame ==
    /\ RendererNew(FittingDisplays \cup OtherDisplays)
    /\ EIDECon_new
    /\ write_byte_latch = None
    /\ read_byte_latch = None
    /\ ir \in {7, 18}
    /\ ac = 0
    /\ cgram \in {<< >>, RenderPicture}
    /\ ireg = [InternalRegsDefault EXCEPT !.i_d = TRUE]
    /\ call = NoCall
    /\ ret = Ok(0)
    /\ budget = MaxFrameCalls

NextFrame ==
    \/ RenderData
    \/ Renderer
    \/ UserClose

SpecFrame == InitFrame /\ [][NextFrame]_vars

-----------------------------------------------------------------------------
(* The guest at the EIDE controller: reads and writes at every offset of the
   register table and at offsets beside it *)

\* every offset probe names, and 0x020, 0x024, 0x404 and 0x414 which it does not
EideOffsets ==
    {0, 4, 8, 12, 16, 20, 24, 28, 40, 44,
     480, 484, 488, 492, 496, 500, 504, 508, 1016, 1020,
     1024, 1032, 1036, 1040,
     32, 36, 1028, 1044}

\* the values the guest writes: 0x00, 0x30 (bits 4 and 5), 0x1234
EideVals == {0, 48, 4660}

EideRead == \E offset \in EideOffsets : eide_r32(offset)

EideWrite == \E offset \in EideOffsets, val \in EideVals : eide_w32(offset, val)

NextEide == EideRead \/ EideWrite

SpecEide == Init /\ [][NextEide]_vars

-----------------------------------------------------------------------------
(* Steps of the guest, as the claims speak of them *)

\* this step is a w32 that finds the write latch empty
FirstByteStep == call'.op = "w32" /\ budget' # budget /\ write_byte_latch = None

\* this step is a w32 that finds a byte in the write latch
SecondByteStep == call'.op = "w32" /\ budget' # budget /\ write_byte_latch # None

\* the 16-bit value a SecondByteStep completes: (h << 8) | low8(value)
Written16 == (Unwrap(write_byte_latch) * 256) + (call'.val % 256)

\* this step is an r32
ReadStep == call'.op = "r32" /\ budget' # budget

\* the last access completed a 16-bit write at the offset
Completed(offset) ==
    call.op = "w32" /\ call.offset = offset /\ write_byte_latch = None

-----------------------------------------------------------------------------
(* C1 - the write byte latch.  A w32 that finds the latch empty stores the
   low 8 bits of its value there, returns Ok and changes nothing else.  A w32
   that finds byte h forms (h << 8) | low8(value), empties the latch and
   gives that value to the register at the written offset: to IR at 0x8 (Ok
   within [0, 0x12], ContractViolation above), to handle_data at 0x10, and to
   no register, with Unexpected, anywhere else.  The read latch is never
   touched. *)
C1_WriteByteLatch ==
    [][ /\ FirstByteStep =>
            /\ write_byte_latch' = Some(call'.val % 256)
            /\ ret' = Ok(0)
            /\ UNCHANGED <<read_byte_latch, ir, ac, cgram, ireg>>
        /\ SecondByteStep =>
            /\ write_byte_latch' = None
            /\ UNCHANGED read_byte_latch
            /\ call'.offset = 8 =>
                 /\ Written16 <= 18 => (ir' = Written16 /\ ret' = Ok(0))
                 /\ Written16 > 18 => ret'.kind = "ContractViolation"
                 /\ UNCHANGED <<ac, cgram, ireg>>
            /\ call'.offset = 16 =>
                 /\ Outcome(ret', ac', cgram', ireg') = handle_data(Written16)
                 /\ UNCHANGED ir
            /\ call'.offset \notin {8, 16} =>
                 /\ ret' = Unexpected
                 /\ UNCHANGED <<ir, ac, cgram, ireg>>
      ]_vars

\* the bytes 0x00 and then 0x112 (cut to 0x12) written to Command made IR 0x12
C1_Witness == Completed(8) /\ call.val = 274 /\ ir = 18 /\ ret = Ok(0)

(* C2 - the read byte latch.  An r32 that finds a pending low byte returns it
   and empties the slot, latching nothing.  Otherwise, at a readable offset
   (0x0: zero, 0x8: the contrast field CT) it latches the low byte of the
   16-bit value and returns the high byte; at any other offset it returns
   Unexpected and latches nothing.  No r32 changes the write latch, IR, AC,
   the internal registers or the graphics RAM. *)
C2_ReadByteLatch ==
    [][ ReadStep =>
          /\ UNCHANGED <<write_byte_latch, ir, ac, cgram, ireg>>
          /\ read_byte_latch # None =>
               /\ ret' = Ok(read_byte_latch[1])
               /\ read_byte_latch' = None
          /\ (read_byte_latch = None /\ call'.offset = 0) =>
               /\ ret' = Ok(0)
               /\ read_byte_latch' = Some(0)
          /\ (read_byte_latch = None /\ call'.offset = 8) =>
               /\ ret' = Ok(ireg.ct \div 256)
               /\ read_byte_latch' = Some(ireg.ct % 256)
          /\ (read_byte_latch = None /\ call'.offset \notin {0, 8}) =>
               /\ ret' = Unexpected
               /\ read_byte_latch' = None
      ]_vars

\* the second of two reads of Command returned the low byte, a contrast of 5
C2_Witness ==
    /\ call.op = "r32"
    /\ call.offset = 8
    /\ read_byte_latch = None
    /\ ireg.ct = 5
    /\ ret = Ok(5)

(* C3 - a completed 16-bit write of v to Command (0x8) stores v as IR and
   returns Ok when v <= 0x12; when v > 0x12 it returns ContractViolation and
   IR keeps the value it had; AC, the internal registers and the graphics RAM
   are unchanged either way. *)
C3_CommandWriteKeepsIR ==
    [][ (SecondByteStep /\ call'.offset = 8) =>
          /\ UNCHANGED <<ac, cgram, ireg>>
          /\ Written16 <= 18 => (ir' = Written16 /\ ret' = Ok(0))
          /\ Written16 > 18 => (ir' = ir /\ ret'.kind = "ContractViolation")
      ]_vars

(* C8 - no sequence of bus accesses makes a Data write take the
   "invalid LCD command" FatalError arm of handle_data: whenever a Data write
   has completed, IR is an implemented command or one of the unimplemented
   commands 0x02, 0x03, 0x08, 0x0b-0x0e. *)
C8_NoInvalidCommandArm ==
    Completed(16) =>
        /\ ir \in ImplementedCmds \cup UnimplementedCmds
        /\ ~ ( /\ ret.kind = "FatalError"
               /\ ret.msg = "attempted to execute invalid LCD command" )

(* C9 - a Data write that returns ContractViolation leaves the internal
   registers as they were, and the stored AM is never 0b11. *)
C9_ViolationKeepsEntryMode ==
    [][ /\ (SecondByteStep /\ call'.offset = 16 /\ ret'.kind = "ContractViolation")
            => ireg' = ireg
        /\ ireg'.am # 3
      ]_vars

(* C10 - Entry Mode AM check.  A completed Data write of v with IR = 0x05
   returns ContractViolation when bits 3..2 of v are 0b11, and does not
   return ContractViolation when they are 0b00. *)
C10_EntryModeAmCheck ==
    [][ (SecondByteStep /\ call'.offset = 16 /\ ir = 5) =>
          /\ ((Written16 \div 4) % 4 = 3) => ret'.kind = "ContractViolation"
          /\ ((Written16 \div 4) % 4 = 0) => ret'.kind # "ContractViolation"
      ]_vars

\* Entry Mode was written with AM bits 0b11 (0x0c or 0x0f) and was refused
C10_Witness ==
    /\ Completed(16)
    /\ ir = 5
    /\ call.val \in {12, 15}
    /\ ret.kind = "ContractViolation"

-----------------------------------------------------------------------------
(* Claims about the Address Counter (SpecAc) and the graphics operation
   (SpecGop) *)

\* this step completes a Data write with Write Data to CGRAM selected
CgramWriteStep == SecondByteStep /\ call'.offset = 16 /\ ir = 18

(* C4 - the Address Counter stays inside the graphics RAM: 0 <= AC < 0x1080
   = EMU_CGRAM_LEN in every state, and no access indexes the graphics RAM out
   of its bounds. *)
C4_AcInRange ==
    /\ ac \in 0 .. 4223
    /\ ac < EMU_CGRAM_LEN
    /\ ret.kind # "Panic"

\* a decrementing write at AC = 0 wrapped below zero and AC is 0xe74
C4_Witness ==
    /\ Completed(16)
    /\ ir = 18
    /\ ret = Ok(0)
    /\ ~ireg.i_d
    /\ DOMAIN cgram = {0}
    /\ ac = 3700

(* C5 - decrement wraparound: with AM = 0b00 and I/D = decrement, a
   graphics-RAM write at column 0x00 of row r leaves AC at column 0x14 of the
   row before, which for row 0 is the last row: AC = 0x1074. *)
C5_DecrementWrap ==
    [][ (CgramWriteStep /\ ireg.am = 0 /\ ~ireg.i_d /\ ac % 32 = 0) =>
          ac' = (IF ac = 0 THEN 4212 ELSE (ac - 32) + 20)
      ]_vars

(* C6 - increment wraparound: with AM = 0b00 and I/D = increment, a
   graphics-RAM write at column 0x14 of row r leaves AC at the row base +
   0x20, modulo 0x1080 (0 after the last row), and not at the row base +
   0x15. *)
C6_IncrementWrap ==
    [][ (CgramWriteStep /\ ireg.am = 0 /\ ireg.i_d /\ ac % 32 = 20) =>
          /\ ac' = ((ac - 20) + 32) % 4224
          /\ ac' # (ac - 20) + 21
      ]_vars

\* an incrementing write at column 0x14 of the last row (0x1074) left AC at 0
C6_Witness ==
    /\ Completed(16)
    /\ ir = 18
    /\ ret = Ok(0)
    /\ ireg.i_d
    /\ ireg.am = 0
    /\ DOMAIN cgram = {4212}
    /\ ac = 0

\* bit i of (o & wm) | (op_lg(o, rotl16(v, 2 * rt)) & ~wm)
MaskedOpBit(o, v, rt, lg, wm, i) ==
    LET r == Bit(v, ((i + 16) - 2 * rt) % 16)
    IN IF Bit(wm, i) = 1 THEN Bit(o, i)
       ELSE CASE lg = 0 -> r
              [] lg = 1 -> IF Bit(o, i) + r >= 1 THEN 1 ELSE 0
              [] lg = 2 -> IF Bit(o, i) + r = 2 THEN 1 ELSE 0
              [] lg = 3 -> IF Bit(o, i) # r THEN 1 ELSE 0

RECURSIVE MaskedOpFrom(_, _, _, _, _, _)
MaskedOpFrom(o, v, rt, lg, wm, i) ==
    IF i = 16 THEN 0
    ELSE (MaskedOpBit(o, v, rt, lg, wm, i) * Pow2(i))
             + MaskedOpFrom(o, v, rt, lg, wm, i + 1)

(* C7 - the word a graphics-RAM write stores.  A completed Data write of v
   with IR = 0x12 stores, at the AC held before the write, the word
   (o & WM) | (op_LG(o, rotl16(v, 2 * RT)) & ~WM) for the old word o, with op
   = replace, OR, AND, XOR for LG = 0, 1, 2, 3, and changes no other word.
   With LG = replace and WM = 0 the word is v rotated; with WM = 0xffff the
   word is unchanged. *)
C7_StoredWord ==
    [][ CgramWriteStep =>
          LET o == CgramGet(cgram, ac)
              w == CgramGet(cgram', ac)
          IN /\ w = MaskedOpFrom(o, Written16, ireg.rt, ireg.lg, ireg.wm, 0)
             /\ \A a \in (DOMAIN cgram \cup DOMAIN cgram') \ {ac} :
                    CgramGet(cgram', a) = CgramGet(cgram, a)
             /\ (ireg.lg = 0 /\ ireg.wm = 0) =>
                    w = ((Written16 * Pow2(2 * ireg.rt)) % 65536)
                          + (Written16 \div Pow2(16 - 2 * ireg.rt))
             /\ ireg.wm = 65535 => w = o
      ]_vars

\* 0x813c written over 0x8001 at address 0x14 with RT = 3, LG = XOR and
\* WM = 0x00ff stored 0xcf01, and AC moved on to 0x20
C7_Witness ==
    /\ Completed(16)
    /\ ret = Ok(0)
    /\ ireg.rt = 3
    /\ ireg.lg = 3
    /\ ireg.wm = 255
    /\ ac = 32
    /\ CgramGet(cgram, 20) = 52993
    /\ CgramGet(cgram, 32) = 4660

-----------------------------------------------------------------------------
(* The command registers *)

\* this step is the w32 to LCD Data that completes a 16-bit value
DataWriteStep == SecondByteStep /\ call'.offset = 16

\* what the next r32 of offset 0x8 returns, seen from the state a step leaves
NextRead8 ==
    IF read_byte_latch' # None
        THEN Unwrap(read_byte_latch')
        ELSE ireg'.ct \div 256

\* C11 (as amended): a Data write of v under 0x01, 0x04, 0x05, 0x06, 0x07, 0x10
\* or 0x11 leaves the command's fields equal to their bit slices of v (AC equal
\* to v mod 0x1080 for 0x11) and every other field as it was; after a Contrast
\* write, a read of offset 0x8 that finds no byte pending in the read latch
\* returns 0, and the read after it returns v & 0x7f.
C11_RegisterRoundtrip ==
    [][/\ DataWriteStep =>
            LET v == Written16
            IN /\ ir = 1 =>
                    /\ ireg' = [ireg EXCEPT !.cms = ((v \div 512) % 2 = 1),
                                            !.sgs = ((v \div 256) % 2 = 1),
                                            !.nl = v % 32]
                    /\ ac' = ac
               /\ ir = 4 =>
                    /\ ireg' = [ireg EXCEPT !.vr = (v \div 256) % 8,
                                            !.ct = v % 128]
                    /\ ac' = ac
               /\ ir = 5 =>
                    /\ ireg' = [ireg EXCEPT !.i_d = ((v \div 16) % 2 = 1),
                                            !.am = (v \div 4) % 4,
                                            !.lg = v % 4]
                    /\ ac' = ac
               /\ ir = 6 =>
                    /\ ireg' = [ireg EXCEPT !.rt = v % 8]
                    /\ ac' = ac
               /\ ir = 7 =>
                    /\ ireg' = [ireg EXCEPT !.spt = ((v \div 256) % 2 = 1),
                                            !.gsh = (v \div 16) % 4,
                                            !.gsl = (v \div 4) % 4,
                                            !.rev = ((v \div 2) % 2 = 1),
                                            !.d = (v % 2 = 1)]
                    /\ ac' = ac
               /\ ir = 16 =>
                    /\ ireg' = [ireg EXCEPT !.wm = v]
                    /\ ac' = ac
               /\ ir = 17 =>
                    /\ ireg' = ireg
                    /\ ac' = v % 4224
       /\ (ReadStep /\ call'.offset = 8 /\ Completed(16) /\ ir = 4
             /\ read_byte_latch = None) =>
            /\ ret' = Ok(0)
            /\ NextRead8 = call.val % 128
       /\ (ReadStep /\ call'.offset = 8 /\ call.op = "r32"
             /\ read_byte_latch # None) =>
            /\ ret' = Ok(Unwrap(read_byte_latch))
            /\ read_byte_latch' = None]_vars

\* the second read after Contrast was written with 0xa5a5 returns 0x25
C11_Witness ==
    /\ call.op = "r32"
    /\ ir = 4
    /\ ireg.vr = 5
    /\ ireg.ct = 37
    /\ read_byte_latch = None
    /\ ret = Ok(37)

\* C11 (as stated): the two reads of offset 0x8 that follow a Contrast write
\* return 0 and then v & 0x7f, whatever the read latch held.
C11_ContrastReadBack ==
    [][(ReadStep /\ call'.offset = 8 /\ Completed(16) /\ ir = 4) =>
            /\ ret' = Ok(0)
            /\ NextRead8 = call.val % 128]_vars

\* C12: a Data write while IR is 0x02, 0x03, 0x08, 0x0b, 0x0c, 0x0d or 0x0e
\* returns FatalError, whatever the value written and the state before.
C12_UnimplementedFatal ==
    [][(DataWriteStep /\ ir \in {2, 3, 8, 11, 12, 13, 14}) =>
            ret'.kind = "FatalError"]_vars

\* 0xa5a5 written to Data under IR = 0x0b was refused
C12_Witness ==
    /\ Completed(16)
    /\ call.val = 165
    /\ ir = 11
    /\ ret.kind = "FatalError"

-----------------------------------------------------------------------------
(* The address mode of a video-RAM write *)

\* C15: a video-RAM write (Data write with IR = 0x12) returns FatalError when
\* the stored AM is 0b01 or 0b10 and Ok when it is 0b00; AC moves only when AM
\* is 0b00, and then by the one-word step: to the next word of the row when
\* incrementing, to the previous one when decrementing.
C15_AddressMode ==
    [][CgramWriteStep =>
            /\ ireg.am \in {1, 2} => ret'.kind = "FatalError"
            /\ ireg.am # 0 => ac' = ac
            /\ ireg.am = 0 =>
                 /\ ret' = Ok(0)
                 /\ ac' # ac
                 /\ (ireg.i_d /\ ac % 32 < 20) => ac' = ac + 1
                 /\ (~ireg.i_d /\ ac % 32 \in 1 .. 20) => ac' = ac - 1]_vars

\* a write at word 165 with AM = 0b01 was refused and left AC where it was
C15_Witness ==
    /\ Completed(16)
    /\ ir = 18
    /\ ireg.am = 1
    /\ ret.kind = "FatalError"
    /\ ac = 165

-----------------------------------------------------------------------------
(* probe against r32 and w32 *)

\* C14: whatever the latches hold, an access returns the unmapped-offset error
\* (MemException::Unexpected) exactly when probe calls its offset Unmapped: an
\* access to 0x0, 0x8 or 0x10 never returns it, and an access to any other
\* offset never returns Ok.
C14_ProbeConsistency ==
    call.op \in {"r32", "w32"} =>
        /\ (ret.kind = "Unexpected") <=> (probe(call.offset).kind = "Unmapped")
        /\ probe(call.offset).kind = "Unmapped" => ret.kind # "Ok"

-----------------------------------------------------------------------------
(* One write latch for every offset *)

\* C20: the write latch is per register: a byte written to Command or Data
\* right after a first byte that went to the other of the two is not paired
\* with it, so the first byte stays pending and no register is written.
C20_LatchPerRegister ==
    [][(SecondByteStep /\ call.op = "w32" /\ call.offset # call'.offset
          /\ {call.offset, call'.offset} = {8, 16}) =>
            /\ write_byte_latch' # None
            /\ UNCHANGED <<ir, ac, cgram, ireg>>]_vars

-----------------------------------------------------------------------------
(* The renderer: palette and invert flag *)

\* the pixels (positions in the buffer) that word j of row `row` was decoded to
PixelsOf(row, j) ==
    LET wpr == (dims.width + 8) \div 8
    IN {(((row * wpr) + ((wpr - 1) - j)) * 8) + k : k \in 1 .. 8}

\* the visible words, as [row, j]
VisibleWords ==
    {<<row, j>> : row \in 0 .. (dims.height - 1),
                  j \in 0 .. (((dims.width + 8) \div 8) - 1)}

\* C13 (as amended): in a decoded frame every pixel of an all-zero word has the
\* lightest colour (0xffffff) when the invert flag the renderer loaded is off
\* and the darkest (0x000000) when it is on, and every pixel of an all-ones
\* word the darkest when it is off and the lightest when it is on.
C13_PaletteInvert ==
    renderer.pc = "present" =>
        \A rj \in VisibleWords :
            LET w == CgramGet(renderer.cgram, (rj[1] * 32) + rj[2])
            IN /\ w = 0 =>
                    \A p \in PixelsOf(rj[1], rj[2]) :
                        renderer.buffer[p]
                            = IF renderer.invert THEN 0 ELSE 16777215
               /\ w = 65535 =>
                    \A p \in PixelsOf(rj[1], rj[2]) :
                        renderer.buffer[p]
                            = IF renderer.invert THEN 16777215 ELSE 0

\* the guest has set the invert flag with 0xffff under IR = 0x07; the frame
\* shows the word 0xffff at address 0 lightest and the clear word at 1 darkest
C13_Witness ==
    /\ renderer.pc = "present"
    /\ renderer.invert
    /\ ir = 7
    /\ call.op = "w32"
    /\ call.val = 255
    /\ CgramGet(renderer.cgram, 0) = 65535
    /\ renderer.buffer[9] = 16777215
    /\ renderer.buffer[1] = 0

\* C13 (as stated): an all-zero word decodes to the darkest colour when the
\* invert flag is off and to the lightest when it is on, and an all-ones word
\* to the darkest when it is on.
C13_PaletteAsStated ==
    renderer.pc = "present" =>
        \A rj \in VisibleWords :
            LET w == CgramGet(renderer.cgram, (rj[1] * 32) + rj[2])
            IN /\ w = 0 =>
                    \A p \in PixelsOf(rj[1], rj[2]) :
                        renderer.buffer[p]
                            = IF renderer.invert THEN 16777215 ELSE 0
               /\ (w = 65535 /\ renderer.invert) =>
                    \A p \in PixelsOf(rj[1], rj[2]) :
                        renderer.buffer[p] = 0

-----------------------------------------------------------------------------
(* The guest and the renderer: the lock on the graphics RAM *)

\* C16: the renderer holds the lock only while it copies the graphics RAM, not
\* while it decodes, presents or waits out the frame; and whenever the guest
\* may make an access, every r32 and every w32 can complete at once, except
\* the Data write that completes a value under IR = 0x12 while that copy is
\* being taken.
C16_DriverNeverBlocks ==
    /\ cgram_lock = "read" => renderer.pc = "copy"
    /\ (DriverRuns /\ budget > 0 /\ ret.kind # "Panic") =>
         /\ \A offset \in Offsets : ENABLED r32(offset)
         /\ \A offset \in Offsets, v \in RenderBytes :
                \/ ENABLED w32(offset, v)
                \/ /\ write_byte_latch # None /\ offset = 16 /\ ir = 18
                   /\ renderer.pc = "copy"

\* a video-RAM write is due (its first byte is latched) while the renderer is
\* half way through its copy
C16_Witness ==
    /\ cgram_lock = "read"
    /\ renderer.copied = 1
    /\ ir = 18
    /\ write_byte_latch = Some(255)
    /\ budget > 0
    /\ DriverRuns

\* the addresses below this one are in the copy the renderer has taken so far
CopiedBelow == (renderer.copied * EMU_CGRAM_LEN) \div CopyChunks

\* C17: while the renderer copies the graphics RAM it holds the read lock and
\* what it has copied so far equals the store as it is now, so the full copy
\* equals the store at one instant; a frame is decoded from a full copy; and
\* the renderer holds no lock when it is not copying: not when it loads the
\* invert flag, decodes or presents.
C17_SnapshotDiscipline ==
    /\ renderer.pc = "copy" =>
         /\ cgram_lock = "read"
         /\ \A a \in DOMAIN cgram \cup DOMAIN renderer.cgram :
                a < CopiedBelow =>
                    CgramGet(renderer.cgram, a) = CgramGet(cgram, a)
    /\ renderer.pc \in {"load", "decode", "present"} =>
         renderer.copied = CopyChunks
    /\ renderer.pc # "copy" => cgram_lock = "free"

\* the guest has written 0x00ff to word 0 and the renderer holds a full copy
\* with that word in it, the lock not yet released
C17_Witness ==
    /\ renderer.pc = "copy"
    /\ renderer.copied = CopyChunks
    /\ ir = 18
    /\ call.op = "w32"
    /\ write_byte_latch = None
    /\ CgramGet(cgram, 0) = 255
    /\ CgramGet(renderer.cgram, 0) = 255

-----------------------------------------------------------------------------
(* Teardown and the end of the renderer *)

\* C18: teardown puts exactly one message into the kill channel: the channel
\* is empty until teardown has sent, so the send finds room and can be made at
\* once whatever the renderer is doing; teardown is over only once the message
\* is in the channel, and it stays there, one message, since the renderer only
\* tests the channel for emptiness.
C18_CooperativeShutdown ==
    /\ teardown # "done" => kill = 0
    /\ teardown = "done" => kill = 1
    /\ (teardown = "send" /\ Running) => (kill < KillCapacity /\ ENABLED DropSend)

\* teardown is over while the renderer is still in the middle of a copy
C18_Witness ==
    /\ teardown = "done"
    /\ kill = 1
    /\ renderer.pc = "copy"
    /\ renderer.copied = 1
    /\ window.open

\* this step is the renderer's loop test
LoopCheckStep == renderer.pc = "check" /\ renderer'.pc # "check"

\* C19 (as amended): the loop test starts another iteration exactly when the
\* kill channel is empty, the window is open and Escape is not held down, and
\* leaves the loop otherwise; the loop is left nowhere else; and once teardown
\* has sent its message the renderer, scheduled fairly, leaves the loop.
C19_RendererExit ==
    /\ [][/\ LoopCheckStep =>
               IF kill = 0 /\ window.open /\ ~window.escape
                   THEN renderer'.pc = "lock"
                   ELSE renderer'.pc = "exit"
          /\ (renderer'.pc = "exit" /\ renderer.pc # "exit") => LoopCheckStep]_vars
    /\ (teardown = "done") ~> (renderer.pc \in {"exit", "exited"})

\* the renderer has left the loop on the kill message alone
C19_Witness ==
    /\ renderer.pc = "exit"
    /\ teardown = "done"
    /\ kill = 1
    /\ window.open
    /\ ~window.escape

\* C19 (as stated): the loop test starts another iteration while no message
\* has been sent and the window is open, and the loop is left only when the
\* message is there or the window has been closed.
C19_ExitAsStated ==
    [][LoopCheckStep =>
           /\ (kill = 0 /\ window.open) => renderer'.pc = "lock"
           /\ renderer'.pc = "exit" => (kill > 0 \/ ~window.open)]_vars

-----------------------------------------------------------------------------
(* The renderer: every pixel value *)

\* the four colours by brightness rank, 0 the darkest and 3 the lightest
ColourOfRank(n) ==
    CASE n = 0 -> 0
      [] n = 1 -> 6842472
      [] n = 2 -> 12105913
      [] n = 3 -> 16777215

\* C21: in a decoded frame the pixel that comes from bits 2i+1..2i of a copied
\* word, of value idx, has the colour of rank 3 - idx when the invert flag the
\* renderer loaded is off and of rank idx when it is on; the palette runs from
\* the darkest colour (entry 0) to the lightest (entry 3).
C21_IndexComplement ==
    /\ \A n \in 1 .. 3 : PALETTE[n] < PALETTE[n + 1]
    /\ renderer.pc = "present" =>
         \A rj \in VisibleWords :
             LET w == CgramGet(renderer.cgram, (rj[1] * 32) + rj[2])
                 wpr == (dims.width + 8) \div 8
                 first == ((rj[1] * wpr) + ((wpr - 1) - rj[2])) * 8
             IN \A i \in 0 .. 7 :
                    LET idx == (w \div (4 ^ i)) % 4
                    IN renderer.buffer[first + (8 - i)]
                         = IF renderer.invert
                               THEN ColourOfRank(idx)
                               ELSE ColourOfRank(3 - idx)

\* a frame decoded with the flag off from the picture: the word 0x1b1b at 33
\* gives the pixels of values 0, 1, 2, 3 the ranks 3, 2, 1, 0
C21_Witness ==
    /\ renderer.pc = "present"
    /\ ~renderer.invert
    /\ CgramGet(renderer.cgram, 33) = 6939
    /\ renderer.buffer[17] = 16777215
    /\ renderer.buffer[18] = 12105913
    /\ renderer.buffer[19] = 6842472
    /\ renderer.buffer[20] = 0

-----------------------------------------------------------------------------
(* The EIDE controller: stubs and unmapped offsets *)

\* C22: an access to EIDECon at 0x028, 0x02c, 0x400, 0x408, 0x40c or 0x410
\* returns StubRead (r32) or StubWrite (w32); and, at the offsets that eide.rs
\* answers itself, the unmapped-offset error (MemException::Unexpected) is
\* returned exactly where probe says Unmapped.
C22_StubClassification ==
    eide.call.op \in {"r32", "w32"} =>
        /\ eide.call.offset \in {40, 44, 1024, 1032, 1036, 1040} =>
             eide.ret.kind = IF eide.call.op = "r32" THEN "StubRead" ELSE "StubWrite"
        /\ eide.ret.kind # "IdeController" =>
             ((eide.ret.kind = "Unexpected")
                <=> (eide_probe(eide.call.offset).kind = "Unmapped"))

-----------------------------------------------------------------------------
(* Errors and the graphics RAM *)

\* C23: a Data write that returns FatalError or ContractViolation leaves the
\* graphics RAM and AC as they were; so a write under IR = 0x12 with AM 0b01,
\* 0b10 or 0b11 does not change the word at AC.
C23_ErrorKeepsCgram ==
    [][(DataWriteStep /\ ret'.kind \in {"FatalError", "ContractViolation"}) =>
            /\ cgram' = cgram
            /\ ac' = ac]_vars

-----------------------------------------------------------------------------
(* The column of AC after a write *)

\* C24: after a successful write to the graphics RAM (IR = 0x12, AM = 0b00) AC
\* is in a valid column, AC & 0x1f <= 0x14, whatever AC in [0, 0x1080) the
\* write started from (valid column or not) and whichever way I/D counts.
C24_ValidColumn ==
    [][(CgramWriteStep /\ ireg.am = 0 /\ ret'.kind = "Ok") =>
            (ac' % 32) <= 20]_vars

\* a write counting down has put AC in the last valid column of row 1
C24_Witness ==
    /\ Completed(16)
    /\ ir = 18
    /\ ireg.am = 0
    /\ ~ireg.i_d
    /\ ret = Ok(0)
    /\ ac = 52

-----------------------------------------------------------------------------
(* The end of the process *)

\* C25: once the renderer has left its loop its one further step is
\* std::process::exit(0), after which no thread of the process takes a step;
\* and, the renderer being scheduled fairly, the process exits with code 0
\* once teardown has sent its message, the user has closed the window, or
\* Escape is held down.
C25_ProcessExit ==
    /\ [][/\ (renderer.pc = "exit" /\ renderer' # renderer) =>
               (renderer'.pc = "exited" /\ renderer'.exit_code = Some(0))
          /\ renderer'.exit_code # None => renderer.pc = "exit"
          /\ renderer.pc # "exited"]_vars
    /\ (renderer.pc = "exit") ~> (renderer.pc = "exited" /\ renderer.exit_code = Some(0))
    /\ (teardown = "done" \/ (renderer.pc # "start" /\ (~window.open \/ window.escape)))
          ~> (renderer.pc = "exited" /\ renderer.exit_code = Some(0))

\* the process has exited with code 0 on the kill message alone
C25_Witness ==
    /\ renderer.pc = "exited"
    /\ renderer.exit_code = Some(0)
    /\ teardown = "done"
    /\ kill = 1
    /\ window.open
    /\ ~window.escape

-----------------------------------------------------------------------------
(* The size of a frame *)

\* the widened width is a multiple of 8 and at most 256, the height at most 132
FitsCgram ==
    /\ (dims.width + HACK_WIDTH) % 8 = 0
    /\ dims.width + HACK_WIDTH <= EMU_CGRAM_WIDTH
    /\ dims.height <= CGRAM_HEIGHT

\* C26: for a display whose widened width is a multiple of 8 and at most 256
\* and whose height is at most 132, every frame the renderer decodes has
\* height rows of (width + 8) / 8 words of 8 pixels, (width + 8) * height
\* pixels in all, so the assertion on the buffer's length never fails,
\* whatever the graphics RAM and the invert flag are.
C26_FrameSize ==
    FitsCgram =>
        /\ renderer.pc # "panicked"
        /\ renderer.pc # "start" =>
             /\ Len(renderer.buffer) = (dims.width + HACK_WIDTH) * dims.height
             /\ Len(renderer.buffer)
                  = (dims.height * ((dims.width + HACK_WIDTH) \div 8)) * 8
        /\ renderer.pc = "decode" =>
             Len(DecodeFrame(renderer.cgram, dims.width + HACK_WIDTH, dims.height,
                             renderer.invert))
                = (dims.width + HACK_WIDTH) * dims.height

\* the largest display, 256 x 132 once widened, has had an inverted frame of
\* the picture decoded and its length accepted
C26_Witness ==
    /\ dims = [width |-> 248, height |-> 132]
    /\ renderer.pc = "present"
    /\ renderer.invert
    /\ CgramGet(renderer.cgram, 33) = 6939
    /\ Len(renderer.buffer) = 33792

=============================================================================
